---- MODULE Spec2Model ----
(***************************************************************************)
(* Railway tour optimizer of railway-tsp/solve.py:                         *)
(*   convert_to_timetable          trains -> timetable[from][to][t]        *)
(*   find_optimal_route_by_bit_dp  timetable, start, stay -> optimal path  *)
(* Stations are numbered from 0 as in the source; TLA+ sequences are       *)
(* 1-based, so a Python list is modelled as a function over 0..len-1       *)
(* where the code indexes it and as a sequence where it only iterates.     *)
(***************************************************************************)
EXTENDS Integers, Sequences, FiniteSets, TLC

\* ------------------------------------------------------------- bounds
\* section lists written out by hand: at most MaxSections sections between
\* stations 0 and 1, on a clock 0..MaxClock
MaxClock == 3
MaxSections == 2
\* generate_sample_trains: 1..SampleStations stations, 1..SampleTrains trains
SampleStations == 3
SampleTrains == 4
\* stay_minutes ranges over 0..MaxStay
MaxStay == 2

\* ------------------------------------------------------------- values
\* Python's None in the parent table (line 137); station numbers and state
\* masks are never negative, so None is modelled as a negative number.
None == -1
NoParent == <<None, None>>

\* class Section
Section(fs, ts, ft, tt) ==
    [from_station |-> fs, to_station |-> ts, from_time |-> ft, to_time |-> tt]

MinOf(S) == CHOOSE x \in S : \A y \in S : x <= y
MaxOf(S) == CHOOSE x \in S : \A y \in S : y <= x

\* [section for train in trains for section in train], in iteration order
RECURSIVE Flatten(_)
Flatten(trains) ==
    IF trains = <<>> THEN <<>> ELSE Head(trains) \o Flatten(Tail(trains))

\* ------------------------------------------------ generate_sample_trains
SamplePath(n_st, base_time, direction, section_minutes) ==
    [i \in 1..(n_st - 1) |->
        LET f == i - 1
            t == i
        IN  Section(IF direction # 0 THEN n_st - 1 - f ELSE f,
                    IF direction # 0 THEN n_st - 1 - t ELSE t,
                    base_time + f * section_minutes,
                    base_time + t * section_minutes)]

generate_sample_trains(n_st, n_trains, first_time, train_interval, section_minutes) ==
    [k \in 1..n_trains |->
        SamplePath(n_st, first_time + (k - 1) * train_interval, (k - 1) % 2,
                   section_minutes)]

\* ------------------------------------------------- convert_to_timetable
\* line 66
MaxTimeOf(secs) == 1 + MaxOf({secs[i].to_time : i \in DOMAIN secs})
\* line 67
NStationsOf(secs) == Cardinality({secs[i].to_station : i \in DOMAIN secs})

\* line 68: every entry starts as the pair (max_time, max_time)
EmptyTimetable(n, mt) ==
    [f \in 0..(n - 1) |-> [t \in 0..(n - 1) |-> [m \in 0..(mt - 1) |-> <<mt, mt>>]]]

\* lines 72-74: one edge per section, (from_time, from_station) -> (to_time, to_station)
RideEdges(secs) ==
    {<< <<secs[i].from_time, secs[i].from_station>>,
        <<secs[i].to_time, secs[i].to_station>> >> : i \in DOMAIN secs}

\* lines 75-77: the minutes at which some section starts or ends
TargetTimes(secs, mt) ==
    {t \in 0..(mt - 1) :
        \E i \in DOMAIN secs : secs[i].from_time = t \/ secs[i].to_time = t}

\* fault: the wait edges are left out of the graph
WaitEdgesMissing(n, times) == {}

\* lines 78-80: wait edges between consecutive target times at stations 0..n-1
WaitEdges(n, times) ==
    {<< <<t1, st>>, <<t2, st>> >> :
        <<t1, t2, st>> \in
            {x \in times \X times \X (0..(n - 1)) :
                /\ x[1] < x[2]
                /\ ~ \E u \in times : x[1] < u /\ u < x[2]}}

Adj(edges, node) == {e[2] : e \in {d \in edges : d[1] = node}}

\* lines 87-97: the (time, station) nodes the search marks visited
RECURSIVE Bfs(_, _, _)
Bfs(edges, que, visited) ==
    IF que = {} THEN visited
    ELSE LET next == UNION {Adj(edges, q) : q \in que} \ visited
         IN  Bfs(edges, next, visited \cup next)

\* the nodes that pass line 95, i.e. everything visited after the source
Discovered(edges, source) == Bfs(edges, {source}, {source}) \ {source}

\* lines 85-86, 95: min_to_time after the search
MinToTime(found, section, n, mt) ==
    [st \in 0..(n - 1) |->
        LET init == IF st = section.from_station THEN section.from_time ELSE mt
        IN  MinOf({init} \cup {x[1] : x \in {y \in found : y[2] = st}})]

\* lines 99-105: the entries one section registers at its own departure
\* minute, for to_station = to..n-1
RECURSIVE Register(_, _, _, _, _, _)
Register(tt, section, min_to_time, to, n, mt) ==
    IF to >= n THEN tt
    ELSE IF to = section.from_station \/ min_to_time[to] = mt
         THEN Register(tt, section, min_to_time, to + 1, n, mt)
         ELSE Register([tt EXCEPT ![section.from_station][to][section.from_time] =
                            <<section.from_time, min_to_time[to]>>],
                       section, min_to_time, to + 1, n, mt)

\* lines 85-105 for one section, given the nodes its search discovered.  A
\* list index outside 0..n-1 (lines 86 and 95) raises IndexError.
Searched(tt, section, found, n, mt) ==
    IF section.from_station >= n \/ \E x \in found : x[2] >= n
    THEN [error |-> "IndexError", timetable |-> tt]
    ELSE [error |-> "",
          timetable |-> Register(tt, section, MinToTime(found, section, n, mt), 0, n, mt)]

\* lines 82-105 (Step1), section by section in iteration order
RECURSIVE Step1(_, _, _, _, _, _)
Step1(r, secs, i, edges, n, mt) ==
    IF i > Len(secs) \/ r.error # "" THEN r
    ELSE Step1(Searched(r.timetable, secs[i],
                        Discovered(edges, <<secs[i].from_time, secs[i].from_station>>),
                        n, mt),
               secs, i + 1, edges, n, mt)

\* fault: the entry of minute t is kept, the one of t + 1 never copied down
PyMinKeepsFirst(a, b) == a

\* Python's min on two (from_time, to_time) tuples: lexicographic order,
\* the first argument on a tie
PyMin(a, b) ==
    IF b[1] < a[1] \/ (b[1] = a[1] /\ b[2] < a[2]) THEN b ELSE a

\* The loops below run over the index ranges of the tables they update
\* (range(n_stations), range(max_time - 1), range(1, 1 << n_stations)).
\* lines 114-116 for fixed t and from_station, to_station = to..n-1
RECURSIVE FillTo(_, _, _, _, _)
FillTo(tt, t, from, to, n) ==
    IF to \notin DOMAIN tt[from] THEN tt
    ELSE FillTo([tt EXCEPT ![from][to][t] = PyMin(tt[from][to][t], tt[from][to][t + 1])],
                t, from, to + 1, n)

\* lines 113-116 for fixed t, from_station = from..n-1
RECURSIVE FillFrom(_, _, _, _)
FillFrom(tt, t, from, n) ==
    IF from \notin DOMAIN tt THEN tt
    ELSE FillFrom(FillTo(tt, t, from, 0, n), t, from + 1, n)

\* fault: Step2 is left out and the entries of Step1 are returned as they are
Step2FromLast(tt, t, n, mt) == tt

\* lines 112-116 (Step2): for t = max_time - 2 down to 0
RECURSIVE Step2(_, _, _, _)
Step2(tt, t, n, mt) ==
    IF t \notin DOMAIN tt[0][0] THEN tt
    ELSE Step2(FillFrom(tt, t, 0, n), t - 1, n, mt)

\* lines 112-117 after Step1: its error, or the filled timetable
Finished(s1, n, mt) ==
    [error |-> s1.error, max_time |-> mt, n_stations |-> n,
     timetable |-> IF s1.error # "" THEN <<>> ELSE Step2(s1.timetable, mt - 2, n, mt)]

\* lines 68-117 once max_time, n_stations and the graph are known
Passes(secs, n, mt, edges) ==
    Finished(Step1([error |-> "", timetable |-> EmptyTimetable(n, mt)],
                   secs, 1, edges, n, mt), n, mt)

\* lines 66-80
Prepare(secs, n, mt) ==
    IF \E i \in DOMAIN secs : secs[i].from_time >= mt
    THEN [error |-> "IndexError", max_time |-> mt, n_stations |-> n, timetable |-> <<>>]
    ELSE Passes(secs, n, mt, RideEdges(secs) \cup WaitEdges(n, TargetTimes(secs, mt)))

\* convert_to_timetable, lines 66-117.  max() of an empty list raises
\* ValueError (line 66); target_time_flag[from_time] with from_time >=
\* max_time raises IndexError (line 75).
Converted(secs) ==
    IF secs = <<>>
    THEN [error |-> "ValueError", max_time |-> 0, n_stations |-> 0, timetable |-> <<>>]
    ELSE Prepare(secs, NStationsOf(secs), MaxTimeOf(secs))

convert_to_timetable(trains) == Converted(Flatten(trains))

\* ----------------------------------------- find_optimal_route_by_bit_dp
Pow2(k) == 2 ^ k
\* (state >> k) & 1
Bit(state, k) == (state \div Pow2(k)) % 2

\* fault: the empty state is set to 0 for every station, not for start only
InitTablesAnyStart(n, mt, start) ==
    [dp |-> [st \in 0..(n - 1) |-> [s \in 0..(Pow2(n) - 1) |->
                IF s = 0 THEN 0 ELSE mt]],
     parent |-> [st \in 0..(n - 1) |-> [s \in 0..(Pow2(n) - 1) |-> NoParent]]]

\* lines 135, 137, 139: the tables before the loop
InitTables(n, mt, start) ==
    [dp |-> [st \in 0..(n - 1) |-> [s \in 0..(Pow2(n) - 1) |->
                IF st = start /\ s = 0 THEN 0 ELSE mt]],
     parent |-> [st \in 0..(n - 1) |-> [s \in 0..(Pow2(n) - 1) |-> NoParent]]]

\* fault: the stay is not added before the lookup
ReadyTimeNoStay(arrival, stay) == arrival

\* lines 153-154: arrival at the previous station plus the stay
ReadyTime(arrival, stay) == arrival + stay

\* fault: the stay is added twice while the path is restored
RestoreTimeStayTwice(arrival, stay) == arrival + stay + stay

\* fault: the path is restored with lookups at the bare arrival time
RestoreTimeNoStay(arrival, stay) == arrival

\* line 168: the same sum, recomputed while the path is restored
RestoreTime(arrival, stay) == arrival + stay

\* lines 149-152: the from_station values the loop does not skip
Considered(from, to, from_state) ==
    /\ from # to
    /\ ~ (from_state # 0 /\ Bit(from_state, from) = 0)

\* lines 148-160: scan from_station = from..n-1, keeping the first strictly
\* smaller to_time; best = [min_to_time, min_parent]
RECURSIVE ScanFrom(_, _, _, _, _, _, _, _, _)
ScanFrom(tabs, tt, n, mt, stay, to, from_state, from, best) ==
    IF from >= n THEN best
    ELSE LET current_time == ReadyTime(tabs.dp[from][from_state], stay)
             take == /\ Considered(from, to, from_state)
                     /\ ~ (current_time >= mt)
                     /\ tt[from][to][current_time][2] < best.min_to_time
         IN  ScanFrom(tabs, tt, n, mt, stay, to, from_state, from + 1,
                      IF take
                      THEN [min_to_time |-> tt[from][to][current_time][2],
                            min_parent |-> <<from, from_state>>]
                      ELSE best)

\* line 147: from_state = state - (1 << to_station)
FromState(state, to) == state - Pow2(to)

\* lines 161-162
Recorded(tabs, to, state, best) ==
    [dp |-> [tabs.dp EXCEPT ![to][state] = best.min_to_time],
     parent |-> [tabs.parent EXCEPT ![to][state] = best.min_parent]]

\* lines 141-162: one pass of the to_station loop for a fixed state
RECURSIVE ScanTo(_, _, _, _, _, _, _)
ScanTo(tabs, tt, n, mt, stay, state, to) ==
    IF to \notin DOMAIN tabs.dp THEN tabs
    ELSE IF Bit(state, to) = 0
         THEN ScanTo(tabs, tt, n, mt, stay, state, to + 1)
         ELSE ScanTo(Recorded(tabs, to, state,
                              ScanFrom(tabs, tt, n, mt, stay, to, FromState(state, to), 0,
                                       [min_to_time |-> mt, min_parent |-> NoParent])),
                     tt, n, mt, stay, state, to + 1)

\* lines 140-162: for state in range(1, 1 << n_stations)
RECURSIVE BitDp(_, _, _, _, _, _)
BitDp(tabs, tt, n, mt, stay, state) ==
    IF state \notin DOMAIN tabs.dp[0] THEN tabs
    ELSE BitDp(ScanTo(tabs, tt, n, mt, stay, state, 0), tt, n, mt, stay, state + 1)

\* lines 132-162: the tables when the loop ends
DpTables(tt, n, mt, start, stay) == BitDp(InitTables(n, mt, start), tt, n, mt, stay, 1)

FullSet(n) == Pow2(n) - 1

\* fault: the path is returned in the order it was restored, last section first
NotReversed(s) == s

\* list.reverse(), line 173
RECURSIVE Reverse(_)
Reverse(s) == IF s = <<>> THEN <<>> ELSE Reverse(Tail(s)) \o <<Head(s)>>

\* ---------------------------------------------------------------- inputs
Clock == 0..MaxClock
SeqsUpTo(S, k) == UNION {[1..m -> S] : m \in 0..k}

\* every section between stations 0 and 1, well-formed or not
AllSections ==
    {Section(fs, ts, ft, tt) : <<fs, ts, ft, tt>> \in (0..1) \X (0..1) \X Clock \X Clock}

\* the sections of a two-station line: to_time > from_time, two different stations
LineSections == {s \in AllSections : s.from_station # s.to_station /\ s.from_time < s.to_time}

\* one train of at most MaxSections line sections, in any order
SmallTrains == {<<secs>> : secs \in SeqsUpTo(LineSections, MaxSections)}

\* no train at all, empty trains, and single sections of any kind
OddTrains ==
    {<<>>, << <<>> >>}
    \cup {<< <<s>> >> : s \in AllSections}
    \cup {<< <<s>>, <<>> >> : s \in AllSections}

\* what generate_sample_trains returns for small arguments
SampleFirstTimes == {0, 1}
SampleIntervals == {1, 2}
SampleSectionMinutes == {1, 2}
SampleTrainSets ==
    {generate_sample_trains(a[1], a[2], a[3], a[4], a[5]) :
        a \in (1..SampleStations) \X (1..SampleTrains) \X SampleFirstTimes
              \X SampleIntervals \X SampleSectionMinutes}

\* a three-station line plus short-turn trains between stations 0 and 1,
\* as in generate_watarase_trains (full runs mixed with short runs)
MixedTrainSets ==
    {generate_sample_trains(3, a[1], a[2], a[3], a[4])
        \o generate_sample_trains(2, b[1], b[2], b[3], b[4]) :
        <<a, b>> \in
            ((1..SampleTrains) \X SampleFirstTimes \X SampleIntervals \X SampleSectionMinutes)
            \X ((1..2) \X SampleFirstTimes \X SampleIntervals \X SampleSectionMinutes)}

\* three one-section trains 0 -> 1, 1 -> 2 and 2 -> 0: every connection
\* over two sections changes trains, with or without a wait in between
RelayTrains ==
    {<< <<Section(0, 1, a, a + 1)>>, <<Section(1, 2, b, b + 1)>>,
        <<Section(2, 0, c, c + 1)>> >> : <<a, b, c>> \in Clock \X Clock \X Clock}

\* two one-section trains 0 -> 1, one of which may overtake the other, and
\* one train back
OvertakingTrains ==
    {<< <<Section(0, 1, a, b)>>, <<Section(0, 1, c, d)>>, <<Section(1, 0, e, e + 1)>> >> :
        <<a, b, c, d, e>> \in
            {x \in Clock \X Clock \X Clock \X Clock \X Clock : x[1] < x[2] /\ x[3] < x[4]}}

Inputs ==
    SmallTrains \cup OddTrains \cup SampleTrainSets \cup MixedTrainSets \cup RelayTrains
        \cup OvertakingTrains

\* ----------------------------------------------------------------- state
VARIABLES
    trains,         \* the argument of convert_to_timetable
    pc,             \* "start", "timetable", "restore", "done", "raised"
    error,          \* the exception raised, "" when none
    max_time, n_stations, timetable,
    start_station, stay_minutes,
    dp, parent,
    to_station, to_state, from_station, from_state,
    optimal_path

vars == <<trains, pc, error, max_time, n_stations, timetable, start_station,
          stay_minutes, dp, parent, to_station, to_state, from_station,
          from_state, optimal_path>>

Init ==
    /\ trains \in Inputs
    /\ pc = "start"
    /\ error = ""
    /\ max_time = 0
    /\ n_stations = 0
    /\ timetable = <<>>
    /\ start_station = 0
    /\ stay_minutes = 0
    /\ dp = <<>>
    /\ parent = <<>>
    /\ to_station = 0
    /\ to_state = 0
    /\ from_station = None
    /\ from_state = None
    /\ optimal_path = <<>>

\* timetable = convert_to_timetable(trains)
Convert ==
    /\ pc = "start"
    /\ \E r \in {convert_to_timetable(trains)} :
           /\ error' = r.error
           /\ pc' = IF r.error # "" THEN "raised" ELSE "timetable"
           /\ max_time' = r.max_time
           /\ n_stations' = r.n_stations
           /\ timetable' = r.timetable
    /\ UNCHANGED <<trains, start_station, stay_minutes, dp, parent, to_station,
                   to_state, from_station, from_state, optimal_path>>

\* find_optimal_route_by_bit_dp(timetable, start, stay), lines 132-166
FindOptimalRoute(start, stay) ==
    /\ pc = "timetable"
    /\ start_station' = start
    /\ stay_minutes' = stay
    /\ \E tabs \in {DpTables(timetable, n_stations, max_time, start, stay)} :
           /\ dp' = tabs.dp
           /\ parent' = tabs.parent
           /\ to_station' = start
           /\ to_state' = FullSet(n_stations)
           /\ from_station' = tabs.parent[start][FullSet(n_stations)][1]
           /\ from_state' = tabs.parent[start][FullSet(n_stations)][2]
    /\ optimal_path' = <<>>
    /\ pc' = "restore"
    /\ UNCHANGED <<trains, error, max_time, n_stations, timetable>>

\* one iteration of the while loop, lines 167-172
RestoreStep ==
    /\ pc = "restore"
    /\ from_station # None
    /\ LET current_time == RestoreTime(dp[from_station][from_state], stay_minutes)
       IN  IF current_time >= max_time
           THEN /\ pc' = "raised"
                /\ error' = "IndexError"
                /\ UNCHANGED <<optimal_path, to_station, to_state, from_station, from_state>>
           ELSE /\ optimal_path' = Append(optimal_path,
                    Section(from_station, to_station,
                            timetable[from_station][to_station][current_time][1],
                            timetable[from_station][to_station][current_time][2]))
                /\ to_station' = from_station
                /\ to_state' = from_state
                /\ from_station' = parent[from_station][from_state][1]
                /\ from_state' = parent[from_station][from_state][2]
                /\ UNCHANGED <<pc, error>>
    /\ UNCHANGED <<trains, max_time, n_stations, timetable, start_station,
                   stay_minutes, dp, parent>>

\* the loop ends: lines 173-174
Return ==
    /\ pc = "restore"
    /\ from_station = None
    /\ optimal_path' = Reverse(optimal_path)
    /\ pc' = "done"
    /\ UNCHANGED <<trains, error, max_time, n_stations, timetable, start_station,
                   stay_minutes, dp, parent, to_station, to_state, from_station,
                   from_state>>

Next ==
    \/ Convert
    \/ \E start \in 0..(n_stations - 1), stay \in 0..MaxStay : FindOptimalRoute(start, stay)
    \/ RestoreStep
    \/ Return

Spec == Init /\ [][Next]_vars

\* ============================================================ properties
\* the sections of the input and the two preconditions the claims use
Secs == Flatten(trains)
SecSet == {Secs[i] : i \in DOMAIN Secs}
\* every Leg has destination time > origin time
LegsValid == \A s \in SecSet : s.to_time > s.from_time
\* station ids are 0..n-1 and every station is the destination of some Leg
WellNumbered ==
    LET ids == {s.from_station : s \in SecSet} \cup {s.to_station : s \in SecSet}
    IN  /\ SecSet # {}
        /\ ids = 0..(Cardinality(ids) - 1)
        /\ ids = {s.to_station : s \in SecSet}
ValidInput == LegsValid /\ WellNumbered

Sentinel == <<max_time, max_time>>
Total == dp[start_station][Pow2(n_stations) - 1]

\* Minute-by-minute simulation of a traveller who is at station `from` at
\* minute t and then only waits or rides sections: R is the set of
\* (minute, station) pairs the traveller can be at.
RECURSIVE Travel(_, _)
Travel(R, m) ==
    IF m >= max_time THEN R
    ELSE LET rides == {<<s.to_time, s.to_station>> :
                          s \in {x \in SecSet : x.from_time = m /\ <<m, x.from_station>> \in R}}
             waits == {<<m + 1, x[2]>> : x \in {y \in R : y[1] = m /\ m + 1 < max_time}}
         IN  Travel(R \cup rides \cup waits, m + 1)

\* the minutes at which some itinerary from (`from`, t) is at station `to`
ArrivalsAt(from, to, t) == {x[1] : x \in {y \in Travel({<<t, from>>}, t) : y[2] = to}}

\* C1: for valid, well-numbered trips convert_to_timetable returns, and for
\* every from # to and minute t the arrive_time of timetable[from][to][t] is
\* the earliest arrival at `to` over all wait-or-ride itineraries that are
\* at `from` at minute t; the entry is the sentinel exactly when there is none.
C1_EarliestArrival ==
    (pc \in {"timetable", "raised"} /\ ValidInput) =>
        /\ pc = "timetable"
        /\ \A from \in 0..(n_stations - 1), to \in 0..(n_stations - 1), t \in 0..(max_time - 1) :
            from # to =>
                LET arr == ArrivalsAt(from, to, t)
                IN  /\ (arr = {}) <=> (timetable[from][to][t] = Sentinel)
                    /\ arr # {} => timetable[from][to][t][2] = MinOf(arr)

\* C1 witness: an entry whose arrival no section leaving `from` at the
\* boarding minute reaches directly, i.e. the connection changes trains
C1_Witness ==
    /\ pc = "timetable"
    /\ ValidInput
    /\ \E from \in 0..(n_stations - 1), to \in 0..(n_stations - 1), t \in 0..(max_time - 1) :
        /\ from # to
        /\ timetable[from][to][t] # Sentinel
        /\ timetable[from][to][t][1] > t
        /\ ~ \E s \in SecSet : /\ s.from_station = from
                               /\ s.to_station = to
                               /\ s.to_time = timetable[from][to][t][2]
        /\ \E u \in 0..(max_time - 1) : timetable[from][to][u] = Sentinel

\* ------------------------------------------------------------------ C2
\* all orders of a set of stations, as sequences
RECURSIVE Orders(_)
Orders(S) ==
    IF S = {} THEN {<<>>}
    ELSE UNION {{<<x>> \o o : o \in Orders(S \ {x})} : x \in S}

\* the tour simulated left to right: one timetable lookup per hop, made at
\* the previous arrival plus the stay; max_time when a hop cannot be made
RECURSIVE Walk(_, _, _)
Walk(cur, arrival, rest) ==
    IF rest = <<>> THEN arrival
    ELSE IF arrival + stay_minutes >= max_time THEN max_time
         ELSE LET a == timetable[cur][Head(rest)][arrival + stay_minutes][2]
              IN  IF a >= max_time THEN max_time ELSE Walk(Head(rest), a, Tail(rest))

TourTimes ==
    {Walk(start_station, 0, o \o <<start_station>>) :
        o \in Orders((0..(n_stations - 1)) \ {start_station})}

\* C2: for a timetable built from valid trips the total time of the DP,
\* dp[start][fullSet], which is also the to_time of the last returned
\* segment, is the minimum over all orders of the non-start stations of the
\* simulated tour's arrival back at start (max_time for an unreachable tour).
C2_DpEqualsFullSearch ==
    (pc = "done" /\ ValidInput) =>
        /\ Total = MinOf(TourTimes)
        /\ optimal_path # <<>> => optimal_path[Len(optimal_path)].to_time = Total

\* C2 witness: three stations and two orders that both close the tour, at
\* different times
C2_Witness ==
    /\ pc = "done"
    /\ ValidInput
    /\ n_stations = 3
    /\ Total < max_time
    /\ \E a \in TourTimes : a > Total /\ a < max_time

\* ------------------------------------------------------------------ C3
\* C3: when dp[start][fullSet] is still the sentinel after the DP, the call
\* ends in UnreachableError and does not return normally.
C3_UnreachableRaises ==
    (pc = "done" /\ ValidInput /\ n_stations >= 2 /\ Total = max_time)
        => error = "UnreachableError"

\* ------------------------------------------------------------------ C4
EmptyTrip(train) == train = <<>>
BadLeg(train) == \E i \in DOMAIN train : train[i].to_time <= train[i].from_time
BrokenChain(train) ==
    \E i \in 1..(Len(train) - 1) :
        \/ train[i].to_station # train[i + 1].from_station
        \/ train[i].to_time > train[i + 1].from_time
Malformed ==
    \E k \in DOMAIN trains :
        EmptyTrip(trains[k]) \/ BadLeg(trains[k]) \/ BrokenChain(trains[k])

\* C4: a trip set holding a malformed Trip is rejected with
\* InvalidTripError by timetable construction.
C4_MalformedRejected ==
    (pc # "start" /\ WellNumbered /\ Malformed) => error = "InvalidTripError"

\* ------------------------------------------------------------------ C5
\* C5: in the timetable of valid trips, for every pair (from, to) and all
\* minutes t' <= t, board_time and arrive_time at t' are <= those at t; so
\* a non-sentinel entry at t has only non-sentinel entries before it.
C5_Monotone ==
    (pc = "timetable" /\ ValidInput) =>
        \A from \in 0..(n_stations - 1), to \in 0..(n_stations - 1) :
            \A t \in 0..(max_time - 1), u \in 0..(max_time - 1) :
                u <= t =>
                    /\ timetable[from][to][u][1] <= timetable[from][to][t][1]
                    /\ timetable[from][to][u][2] <= timetable[from][to][t][2]
                    /\ timetable[from][to][t] # Sentinel => timetable[from][to][u] # Sentinel

\* C5 witness: a pair whose entries take three different values over time,
\* the last of them the sentinel
C5_Witness ==
    /\ pc = "timetable"
    /\ ValidInput
    /\ \E from \in 0..(n_stations - 1), to \in 0..(n_stations - 1) :
        \E u \in 0..(max_time - 1), t \in 0..(max_time - 1) :
            /\ u < t
            /\ timetable[from][to][u][1] < timetable[from][to][t][1]
            /\ timetable[from][to][u][2] < timetable[from][to][t][2]
            /\ timetable[from][to][t] # Sentinel
            /\ timetable[from][to][max_time - 1] = Sentinel

\* ------------------------------------------------------------------ C6
\* C6: a returned non-empty route is a closed tour: n segments, leaving
\* start first, ending at start, chained, every other station the
\* destination of exactly one segment and start of the last one only.
C6_ClosedTour ==
    (pc = "done" /\ optimal_path # <<>>) =>
        LET n == Len(optimal_path)
        IN  /\ n = n_stations
            /\ optimal_path[1].from_station = start_station
            /\ optimal_path[n].to_station = start_station
            /\ \A i \in 1..(n - 1) :
                optimal_path[i].to_station = optimal_path[i + 1].from_station
            /\ \A st \in 0..(n_stations - 1) :
                {i \in 1..n : optimal_path[i].to_station = st}
                    = IF st = start_station
                      THEN {n}
                      ELSE {CHOOSE i \in 1..n : optimal_path[i].to_station = st}

\* C6 witness: a returned tour through three stations from a start that is
\* not station 0
C6_Witness ==
    /\ pc = "done"
    /\ Len(optimal_path) = 3
    /\ start_station # 0

\* ------------------------------------------------------------------ C7
\* some station is the origin of a Leg and the destination of none
OriginOnly ==
    \E s \in SecSet : \A x \in SecSet : x.to_station # s.from_station

\* C7: with a station that no Leg arrives at, building the timetable and
\* optimizing ends in UnreachableError and in no other failure.
C7_OriginOnlyUnreachable ==
    (pc \in {"raised", "done"} /\ LegsValid /\ ~ Malformed /\ OriginOnly)
        => error = "UnreachableError"

\* ------------------------------------------------------------------ C8
\* C8: with one station the optimizer returns an empty route and the total
\* time dp[start][fullSet] is 0.
C8_SingleStationZero ==
    (pc = "done" /\ n_stations = 1) => (optimal_path = <<>> /\ Total = 0)

\* ------------------------------------------------------------------ C9
\* C9: for a timetable of valid trips and a fixed start, the total time with
\* stay d2 is >= the total time with any stay d1 <= d2.
C9_StayMonotone ==
    (pc = "done" /\ ValidInput) =>
        \A d1 \in 0..stay_minutes :
            DpTables(timetable, n_stations, max_time, start_station, d1)
                .dp[start_station][Pow2(n_stations) - 1] <= Total

\* C9 witness: a tour that a shorter stay closes strictly earlier
C9_Witness ==
    /\ pc = "done"
    /\ ValidInput
    /\ Total < max_time
    /\ \E d1 \in 0..stay_minutes :
        DpTables(timetable, n_stations, max_time, start_station, d1)
            .dp[start_station][Pow2(n_stations) - 1] < Total

\* ----------------------------------------------------------------- C10
\* C10: in a returned route over valid trips the first segment leaves at or
\* after the stay, every later segment leaves at or after the previous
\* arrival plus the stay, and every segment has from_time < to_time < max_time.
C10_StayRespected ==
    (pc = "done" /\ ValidInput) =>
        /\ optimal_path # <<>> => optimal_path[1].from_time >= stay_minutes
        /\ \A i \in 1..(Len(optimal_path) - 1) :
            optimal_path[i + 1].from_time >= optimal_path[i].to_time + stay_minutes
        /\ \A i \in 1..Len(optimal_path) :
            /\ optimal_path[i].from_time < optimal_path[i].to_time
            /\ optimal_path[i].to_time < max_time

\* C10 witness: a returned three-segment route with a positive stay in which
\* some segment leaves exactly when the stay ends
C10_Witness ==
    /\ pc = "done"
    /\ ValidInput
    /\ stay_minutes > 0
    /\ Len(optimal_path) = 3
    /\ \E i \in 1..2 :
        optimal_path[i + 1].from_time = optimal_path[i].to_time + stay_minutes

\* ----------------------------------------------------------------- C11
\* the visited set of the DP state the k-th returned section leaves from:
\* the destinations of the sections before it
RECURSIVE VisitedBefore(_)
VisitedBefore(k) ==
    IF k <= 1 THEN 0
    ELSE VisitedBefore(k - 1) + Pow2(optimal_path[k - 1].to_station)

\* the value of the DP state the k-th returned section leaves from, and of
\* the one it arrives in
LeftAt(k) == dp[optimal_path[k].from_station][VisitedBefore(k)]
ReachedAt(k) == dp[optimal_path[k].to_station][VisitedBefore(k + 1)]

\* C11 as stated: every returned section has from_time equal to the dp value
\* of the state it leaves plus the stay, and to_time equal to the dp value
\* of the state it arrives in.
C11_BoardIsReadyTime ==
    pc = "done" =>
        \A k \in 1..Len(optimal_path) :
            /\ optimal_path[k].from_time = LeftAt(k) + stay_minutes
            /\ optimal_path[k].to_time = ReachedAt(k)

\* C11 amended: every returned section has from_time equal to the
\* board_time of the timetable entry looked up at the dp value of the state
\* it leaves plus the stay, which is never earlier than that minute, and
\* to_time equal to the dp value of the state it arrives in.
C11_BoardIsLookup ==
    pc = "done" =>
        \A k \in 1..Len(optimal_path) :
            /\ optimal_path[k].from_time >= LeftAt(k) + stay_minutes
            /\ optimal_path[k].from_time =
                   timetable[optimal_path[k].from_station][optimal_path[k].to_station]
                            [LeftAt(k) + stay_minutes][1]
            /\ optimal_path[k].to_time = ReachedAt(k)

\* C11 witness: a returned three-section route with a positive stay in
\* which some section is boarded after a wait beyond the stay
C11_Witness ==
    /\ pc = "done"
    /\ stay_minutes > 0
    /\ Len(optimal_path) = 3
    /\ \E k \in 1..3 : optimal_path[k].from_time > LeftAt(k) + stay_minutes

\* ----------------------------------------------------------------- C12
\* an itinerary boards a section that leaves `from` at exactly minute b and
\* then, waiting and riding, is at `to` at minute a
BoardsAndArrives(from, to, b, a) ==
    \E s \in SecSet :
        /\ s.from_station = from
        /\ s.from_time = b
        /\ a \in ArrivalsAt(s.to_station, to, s.to_time)

\* C12: for valid trips every non-sentinel entry (board_time, arrive_time)
\* of timetable[from][to][t], from # to, has board_time >= t and some
\* itinerary boards a section leaving `from` at exactly board_time and
\* arrives at `to` at arrive_time.
C12_BoardIsActual ==
    (pc = "timetable" /\ ValidInput) =>
        \A from \in 0..(n_stations - 1), to \in 0..(n_stations - 1), t \in 0..(max_time - 1) :
            (from # to /\ timetable[from][to][t] # Sentinel) =>
                /\ timetable[from][to][t][1] >= t
                /\ BoardsAndArrives(from, to, timetable[from][to][t][1],
                                    timetable[from][to][t][2])

\* ----------------------------------------------------------------- C13
\* the number of stations in a visited set
RECURSIVE BitCount(_)
BitCount(state) == IF state = 0 THEN 0 ELSE (state % 2) + BitCount(state \div 2)

\* C13: path reconstruction terminates.  At every point of the while loop
\* the sections restored so far and the stations left in the visited set
\* add up to n_stations, so the loop makes at most n_stations steps; every
\* parent step removes exactly the bit of the current station; every state
\* of the chain but the last has a non-sentinel dp value and a recorded
\* parent; the walk of a reachable tour stops at (start, empty set) after
\* n_stations steps; and no step of the walk raises.
C13_RestoreTerminates ==
    /\ pc = "restore" =>
        /\ Len(optimal_path) + BitCount(to_state) = n_stations
        /\ from_station # None =>
               /\ Bit(to_state, to_station) = 1
               /\ from_state = to_state - Pow2(to_station)
               /\ dp[to_station][to_state] < max_time
               /\ parent[to_station][to_state] # NoParent
        /\ (from_station = None /\ Total < max_time) =>
               /\ to_station = start_station
               /\ to_state = 0
               /\ Len(optimal_path) = n_stations
    /\ pc = "raised" => dp = <<>>

\* C13 witness: a walk over three stations with a positive stay that has
\* ended at (start, empty set)
C13_Witness ==
    /\ pc = "done"
    /\ n_stations = 3
    /\ Total < max_time
    /\ to_station = start_station
    /\ to_state = 0
    /\ stay_minutes > 0

====
